---- MODULE Spec2Model ----
(***************************************************************************)
(* A model of the render queue, the component state record, the id pool,   *)
(* the virtual node constructor and the reconciler (diff, idiff,           *)
(* innerDiffMode, diffAttributes, buildComponentFromVNode) of              *)
(* src/vected.go.                                                          *)
(*                                                                         *)
(* Goroutines are modelled as processes with a program counter.  A step is *)
(* one critical section of queuedRender.mu (Push, last, the Lock/Unlock    *)
(* body of pop), or one access to a field that the code reads and writes   *)
(* without a lock (Core.dirty, idx).                                       *)
(*                                                                         *)
(* The reconciler runs in one goroutine.  A render pass is one step: the   *)
(* whole v.diff call, computed by operators that follow the code statement *)
(* by statement over a record of the document and the fields of Vected.    *)
(* The document is the one the adapter gives access to: nodes with a       *)
(* parent, an ordered list of children (childNodes is live), a name, a     *)
(* value, attributes, the marker attribute and the owning component.       *)
(***************************************************************************)
EXTENDS Integers, Sequences, FiniteSets, TLC

\* ------------------------------------------------------------------ bounds
\* total number of enqueue / SetState calls made by the application
MaxEnqueue == 2

\* the component instances held in Vected.cache
Cmps == {"c1", "c2"}

\* the application goroutines that call enqueue / SetState
Callers == {"u1", "u2"}

\* total number of SetState calls made by the application
MaxSetState == 3

\* one drain goroutine is started per enqueue call
Drains == 1..(IF MaxEnqueue > MaxSetState THEN MaxEnqueue ELSE MaxSetState)

\* the goroutine that makes the SetState calls one after the other
MainCaller == "u1"

\* the instance whose SetState is called
MainCmp == "c1"

\* keys and values of state.State
Keys == {"k1", "k2"}
Vals == {"v1", "v2"}

\* the value of a key that a state.State map does not hold
None == "none"

\* the nil Component
NoCmp == "nil"

\* the number of Push calls of the single goroutine
MaxSeqPush == 3

\* the goroutines that create and retire component instances
Gors == {"g1", "g2"}

\* the largest id the pool issues
MaxIdx == 3

\* the number of nodes built and the longest list of children passed
MaxNodes == 3
MaxChildren == 3

\* NodeType
TextNode == 1
ElementNode == 3
CommentNode == 4

\* the number of render passes made over one document
MaxPasses == 2

\* the longest attribute list handed to diffAttributes
MaxAttrs == 2

\* the strings given to a node as Data, as sequences of characters
Names == {<<"a">>, <<"b">>}

VARIABLES
    components,   \* queuedRender.components: the list.Elements, front to back
    elemValue,    \* elemValue[e]: Value of the list.Element created by the e-th PushBack
    dirty,        \* Core.dirty of every instance
    state,        \* Core.state of every instance
    prevState,    \* Core.prevState of every instance
    upc,          \* position of every application goroutine
    uarg,         \* the instance an application goroutine is enqueueing
    ncalls,       \* number of enqueue / SetState calls started
    dpc,          \* position of every drain goroutine (queuedRender.rerender)
    de,           \* the *list.Element held by a drain goroutine inside pop (0 is nil)
    popReturns,   \* history: how many Pop calls returned element e
    dirtyAtPop,   \* history: Core.dirty of the popped instance when pop removed it
    during,       \* history: a render of the instance has been in flight since the call began
    owed,         \* history: enqueued during a render of the instance, no render started since
    supplied,     \* history: the most recent value passed to SetState for every key
    idx,          \* the last id issued
    idPool,       \* idPool: how many times every id is held by the sync.Pool
    gpc,          \* position of every goroutine that uses the pool
    gtmp,         \* the value of idx a goroutine has loaded for idx++
    gid,          \* the id a goroutine got from the pool for its instance (0: none)
    heap,         \* the Nodes allocated so far; a *Node is an index
    lastCall,     \* the children passed to the latest NewNode call and the *Node it returned
    seqRet,       \* the latest Push / Pop / Last call of the single goroutine and what it returned
    dom,          \* the document: dom[n] is the node with handle n
    cache,        \* Vected.cache: the component instances, by id
    isSVGMode,    \* Vected.isSVGMode
    hydrating,    \* Vected.hydrating
    diffLevel,    \* Vected.diffLevel
    mounts,       \* Vected.mounts: the components waiting for ComponentDidMount
    panicked,     \* the panic that ended the latest render pass ("" if none)
    log,          \* history: what the latest render pass did, in order
    vtree,        \* the virtual node given to the latest render pass
    root,         \* the document node the render passes diff against (0: none)
    passes        \* number of render passes made

vars == <<components, elemValue, dirty, state, prevState, upc, uarg, ncalls,
          dpc, de, popReturns, dirtyAtPop, during, owed, supplied,
          idx, idPool, gpc, gtmp, gid, heap, lastCall, seqRet,
          dom, cache, isSVGMode, hydrating, diffLevel, mounts, panicked, log,
          vtree, root, passes>>

queueVars == <<components, elemValue, dirty, upc, uarg, ncalls, dpc, de,
               popReturns, dirtyAtPop, during, owed>>
idVars == <<idx, idPool, gpc, gtmp, gid>>
nodeVars == <<heap, lastCall>>
seqVars == <<seqRet>>
diffVars == <<dom, cache, isSVGMode, hydrating, diffLevel, mounts, panicked, log,
              vtree, root, passes>>

stateVars == <<state, prevState, supplied>>

\* ----------------------------------------------------------------- helpers
\* the elements of a sequence
Range(s) == {s[i] : i \in 1..Len(s)}

\* container/list Remove: unlink e if it is still an element of the list
Remove(l, e) == SelectSeq(l, LAMBDA x : x # e)

\* container/list Front in the place of Back
Front(l) == IF Len(l) = 0 THEN 0 ELSE l[1]

\* container/list Back: the last element, nil for an empty list
Back(l) == IF Len(l) = 0 THEN 0 ELSE l[Len(l)]

\* the empty state.State
EmptyState == [k \in Keys |-> None]

\* state.Merge: a shallow merge in which the keys of b override those of a
\* (package state is not among the sources; after section 3 of the
\* specification)
Merge(a, b) == [k \in Keys |-> IF b[k] # None THEN b[k] ELSE a[k]]

\* the drain goroutines that have been started and have not returned
ActiveDrains == {d \in Drains : dpc[d] \notin {"none", "done"}}

\* the drain goroutines that are inside renderComponent for instance c
Rendering(c) == {d \in Drains : dpc[d] = "render" /\ elemValue[de[d]] = c}

\* ------------------------------------------------------------------- Init
\* no document yet, nothing diffed
InitDiff ==
    /\ dom = <<>>
    /\ cache = <<>>
    /\ isSVGMode = FALSE
    /\ hydrating = FALSE
    /\ diffLevel = 0
    /\ mounts = <<>>
    /\ panicked = ""
    /\ log = <<>>
    /\ vtree = [Type |-> TextNode, Data |-> "", Attr |-> <<>>, Children |-> <<>>]
    /\ root = 0
    /\ passes = 0

\* the queue, the state records, the id pool and the heap after construction
InitBase ==
    /\ components = <<>>
    /\ elemValue = <<>>
    /\ dirty = [c \in Cmps |-> FALSE]
    /\ state = [c \in Cmps |-> EmptyState]
    /\ prevState = [c \in Cmps |-> EmptyState]
    /\ upc = [u \in Callers |-> "idle"]
    /\ uarg = [u \in Callers |-> NoCmp]
    /\ ncalls = 0
    /\ dpc = [d \in Drains |-> "none"]
    /\ de = [d \in Drains |-> 0]
    /\ popReturns = <<>>
    /\ dirtyAtPop = [d \in Drains |-> FALSE]
    /\ during = [u \in Callers |-> FALSE]
    /\ owed = [c \in Cmps |-> FALSE]
    /\ supplied = [c \in Cmps |-> EmptyState]
    /\ idx = 0
    /\ idPool = [i \in 1..MaxIdx |-> 0]
    /\ gpc = [g \in Gors |-> "idle"]
    /\ gtmp = [g \in Gors |-> 0]
    /\ gid = [g \in Gors |-> 0]
    /\ heap = <<>>
    /\ lastCall = [children |-> <<>>, ret |-> 0]
    /\ seqRet = [op |-> "none", val |-> NoCmp]

Init == InitBase /\ InitDiff

\* ------------------------------------------------- queuedRender.enqueue
\* the application calls q.enqueue(cmp)
enqueue(u, c) ==
    /\ upc[u] = "idle"
    /\ ncalls < MaxEnqueue
    /\ ncalls' = ncalls + 1
    /\ upc' = [upc EXCEPT ![u] = "enq_dirty"]
    /\ uarg' = [uarg EXCEPT ![u] = c]
    /\ during' = [during EXCEPT ![u] = Rendering(c) # {}]
    /\ UNCHANGED <<components, elemValue, dirty, dpc, de, popReturns, dirtyAtPop, owed>>
    /\ UNCHANGED <<stateVars, idVars, nodeVars, seqVars, diffVars>>

\* c.SetState(newState): prev := c.prevState; c.prevState = newState;
\* c.state = state.Merge(prev, newState); then c.enqueue.enqueueCore(c),
\* whose steps are those of enqueue
SetState(u, c, newState) ==
    /\ upc[u] = "idle"
    /\ ncalls < MaxSetState
    /\ ncalls' = ncalls + 1
    /\ prevState' = [prevState EXCEPT ![c] = newState]
    /\ state' = [state EXCEPT ![c] = Merge(prevState[c], newState)]
    /\ supplied' = [supplied EXCEPT ![c] = Merge(@, newState)]
    /\ upc' = [upc EXCEPT ![u] = "enq_dirty"]
    /\ uarg' = [uarg EXCEPT ![u] = c]
    /\ during' = [during EXCEPT ![u] = Rendering(c) # {}]
    /\ UNCHANGED <<components, elemValue, dirty, dpc, de, popReturns, dirtyAtPop, owed>>
    /\ UNCHANGED <<idVars, nodeVars, seqVars, diffVars>>

\* if !cmp.core().dirty { cmp.core().dirty = true }
enqueueDirty(u) ==
    /\ upc[u] = "enq_dirty"
    /\ dirty' = [dirty EXCEPT ![uarg[u]] = TRUE]
    /\ upc' = [upc EXCEPT ![u] = "enq_push"]
    /\ UNCHANGED <<components, elemValue, uarg, ncalls, dpc, de, popReturns, dirtyAtPop, owed>>
    /\ UNCHANGED <<during, stateVars, idVars, nodeVars, seqVars, diffVars>>

\* q.mu.Lock(); q.components.PushBack(v); q.mu.Unlock()
PushDedup(u) ==
    /\ upc[u] = "enq_push"
    /\ IF \E i \in 1..Len(components) : elemValue[components[i]] = uarg[u]
       THEN UNCHANGED <<components, elemValue, popReturns>>
       ELSE /\ elemValue' = Append(elemValue, uarg[u])
            /\ components' = Append(components, Len(elemValue) + 1)
            /\ popReturns' = Append(popReturns, 0)
    /\ owed' = [owed EXCEPT ![uarg[u]] = @ \/ during[u]]
    /\ during' = [during EXCEPT ![u] = FALSE]
    /\ upc' = [upc EXCEPT ![u] = "enq_go"]
    /\ UNCHANGED <<dirty, uarg, ncalls, dpc, de, dirtyAtPop>>
    /\ UNCHANGED <<stateVars, idVars, nodeVars, seqVars, diffVars>>

Push(u) ==
    /\ upc[u] = "enq_push"
    /\ elemValue' = Append(elemValue, uarg[u])
    /\ components' = Append(components, Len(elemValue) + 1)
    /\ popReturns' = Append(popReturns, 0)
    /\ owed' = [owed EXCEPT ![uarg[u]] = @ \/ during[u]]
    /\ during' = [during EXCEPT ![u] = FALSE]
    /\ upc' = [upc EXCEPT ![u] = "enq_go"]
    /\ UNCHANGED <<dirty, uarg, ncalls, dpc, de, dirtyAtPop>>
    /\ UNCHANGED <<stateVars, idVars, nodeVars, seqVars, diffVars>>

\* go q.rerender()
Rerender(u) ==
    /\ upc[u] = "enq_go"
    /\ \E d \in Drains :
        /\ dpc[d] = "none"
        /\ \A x \in Drains : x < d => dpc[x] # "none"
        /\ dpc' = [dpc EXCEPT ![d] = "last"]
    /\ upc' = [upc EXCEPT ![u] = "idle"]
    /\ uarg' = [uarg EXCEPT ![u] = NoCmp]
    /\ UNCHANGED <<components, elemValue, dirty, ncalls, de, popReturns, dirtyAtPop, owed>>
    /\ UNCHANGED <<during, stateVars, idVars, nodeVars, seqVars, diffVars>>

\* ------------------------------------------------- queuedRender.rerender
\* q.mu.RLock(); e := q.components.Back(); q.mu.RUnlock()
last(d) ==
    /\ dpc[d] = "last"
    /\ de' = [de EXCEPT ![d] = Back(components)]
    /\ dpc' = [dpc EXCEPT ![d] = "remove"]
    /\ UNCHANGED <<components, elemValue, dirty, upc, uarg, ncalls, popReturns, dirtyAtPop, owed>>
    /\ UNCHANGED <<during, stateVars, idVars, nodeVars, seqVars, diffVars>>

\* pop that gives up when another goroutine has already removed e
popGiveUp(d) ==
    /\ dpc[d] = "remove"
    /\ IF de[d] # 0 /\ de[d] \in Range(components)
       THEN /\ components' = Remove(components, de[d])
            /\ popReturns' = [popReturns EXCEPT ![de[d]] = @ + 1]
            /\ dirtyAtPop' = [dirtyAtPop EXCEPT ![d] = dirty[elemValue[de[d]]]]
            /\ dpc' = [dpc EXCEPT ![d] = "check"]
            /\ UNCHANGED de
       ELSE /\ dpc' = [dpc EXCEPT ![d] = "done"]
            /\ de' = [de EXCEPT ![d] = 0]
            /\ UNCHANGED <<components, popReturns, dirtyAtPop>>
    /\ UNCHANGED <<elemValue, dirty, upc, uarg, ncalls, owed>>
    /\ UNCHANGED <<during, stateVars, idVars, nodeVars, seqVars, diffVars>>

\* q.mu.Lock(); if e != nil { q.components.Remove(e) }; q.mu.Unlock(); return e
\* and the loop condition cmp != nil of rerender
pop(d) ==
    /\ dpc[d] = "remove"
    /\ IF de[d] # 0
       THEN /\ components' = Remove(components, de[d])
            /\ popReturns' = [popReturns EXCEPT ![de[d]] = @ + 1]
            /\ dirtyAtPop' = [dirtyAtPop EXCEPT ![d] = dirty[elemValue[de[d]]]]
            /\ dpc' = [dpc EXCEPT ![d] = "check"]
       ELSE /\ dpc' = [dpc EXCEPT ![d] = "done"]
            /\ UNCHANGED <<components, popReturns, dirtyAtPop>>
    /\ UNCHANGED <<elemValue, dirty, upc, uarg, ncalls, de, owed>>
    /\ UNCHANGED <<during, stateVars, idVars, nodeVars, seqVars, diffVars>>

\* the loop of rerender without the dirty test
rerenderAlways(d) ==
    /\ dpc[d] = "check"
    /\ dpc' = [dpc EXCEPT ![d] = "render"]
    /\ owed' = [owed EXCEPT ![elemValue[de[d]]] = FALSE]
    /\ dirtyAtPop' = [dirtyAtPop EXCEPT ![d] = FALSE]
    /\ UNCHANGED <<components, elemValue, dirty, upc, uarg, ncalls, de, popReturns>>
    /\ UNCHANGED <<during, stateVars, idVars, nodeVars, seqVars, diffVars>>

\* if cmp.core().dirty { q.v.renderComponent(cmp, 0, false, false) }
rerender(d) ==
    /\ dpc[d] = "check"
    /\ IF dirty[elemValue[de[d]]]
       THEN /\ dpc' = [dpc EXCEPT ![d] = "render"]
            /\ owed' = [owed EXCEPT ![elemValue[de[d]]] = FALSE]
            /\ UNCHANGED de
       ELSE /\ dpc' = [dpc EXCEPT ![d] = "last"]
            /\ de' = [de EXCEPT ![d] = 0]
            /\ UNCHANGED owed
    /\ dirtyAtPop' = [dirtyAtPop EXCEPT ![d] = FALSE]
    /\ UNCHANGED <<components, elemValue, dirty, upc, uarg, ncalls, popReturns>>
    /\ UNCHANGED <<during, stateVars, idVars, nodeVars, seqVars, diffVars>>

\* renderComponent returns: the render is complete and the dirty flag is
\* cleared (renderComponent is not among the sources; this is section 4.2 of
\* the specification: the flag is cleared on completion)
renderComponent(d) ==
    /\ dpc[d] = "render"
    /\ dirty' = [dirty EXCEPT ![elemValue[de[d]]] = FALSE]
    /\ dpc' = [dpc EXCEPT ![d] = "last"]
    /\ de' = [de EXCEPT ![d] = 0]
    /\ during' = [u \in Callers |-> during[u] /\ uarg[u] # elemValue[de[d]]]
    /\ UNCHANGED <<components, elemValue, upc, uarg, ncalls, popReturns, dirtyAtPop, owed>>
    /\ UNCHANGED <<stateVars, idVars, nodeVars, seqVars, diffVars>>

\* --------------------------------------------------------- specification
Next ==
    \/ \E u \in Callers, c \in Cmps : enqueue(u, c)
    \/ \E u \in Callers : enqueueDirty(u)
    \/ \E u \in Callers : Push(u)
    \/ \E u \in Callers : Rerender(u)
    \/ \E d \in Drains : last(d)
    \/ \E d \in Drains : pop(d)
    \/ \E d \in Drains : rerender(d)
    \/ \E d \in Drains : renderComponent(d)

Spec == Init /\ [][Next]_vars

\* the goroutines are scheduled fairly: a started call and a started drain
\* goroutine keep running; the application need not make another call
Fairness ==
    /\ \A u \in Callers : WF_vars(enqueueDirty(u) \/ Push(u) \/ Rerender(u))
    /\ \A d \in Drains : WF_vars(last(d) \/ pop(d) \/ rerender(d) \/ renderComponent(d))

LiveSpec == Init /\ [][Next]_vars /\ Fairness

\* a sequence of SetState calls by one goroutine on one instance, with the
\* drain goroutines they start
NextState ==
    \/ \E p \in [Keys -> Vals \cup {None}] : SetState(MainCaller, MainCmp, p)
    \/ \E u \in Callers : enqueueDirty(u)
    \/ \E u \in Callers : Push(u)
    \/ \E u \in Callers : Rerender(u)
    \/ \E d \in Drains : last(d)
    \/ \E d \in Drains : pop(d)
    \/ \E d \in Drains : rerender(d)
    \/ \E d \in Drains : renderComponent(d)

SpecState == Init /\ [][NextState]_vars

\* ------------------------------------- the queue used by a single goroutine
\* the other variables of the queue, which a single goroutine leaves alone
seqFrame == <<dirty, upc, uarg, ncalls, dpc, de, dirtyAtPop, during, owed>>

\* q.Push(v), the whole call
SeqPush(c) ==
    /\ Len(elemValue) < MaxSeqPush
    /\ elemValue' = Append(elemValue, c)
    /\ components' = Append(components, Len(elemValue) + 1)
    /\ popReturns' = Append(popReturns, 0)
    /\ seqRet' = [op |-> "push", val |-> c]
    /\ UNCHANGED <<seqFrame, stateVars, idVars, nodeVars, diffVars>>

\* q.Pop(), the whole call: e := q.last(); Remove(e) if e != nil; e.Value
SeqPop ==
    LET e == Back(components) IN
    /\ components' = IF e # 0 THEN Remove(components, e) ELSE components
    /\ popReturns' = IF e # 0 THEN [popReturns EXCEPT ![e] = @ + 1] ELSE popReturns
    /\ seqRet' = [op |-> "pop", val |-> IF e # 0 THEN elemValue[e] ELSE NoCmp]
    /\ UNCHANGED <<elemValue, seqFrame, stateVars, idVars, nodeVars, diffVars>>

\* q.Last(), the whole call
SeqLast ==
    LET e == Back(components) IN
    /\ seqRet' = [op |-> "last", val |-> IF e # 0 THEN elemValue[e] ELSE NoCmp]
    /\ UNCHANGED <<components, elemValue, popReturns, seqFrame, stateVars, idVars, nodeVars, diffVars>>

NextSeq ==
    \/ \E c \in Cmps : SeqPush(c)
    \/ SeqPop
    \/ SeqLast

SpecSeq == Init /\ [][NextSeq]_vars

\* ------------------------------------------------------------- the id pool
\* idPool.Get(): the pool hands out an id it holds, or finds none (a
\* sync.Pool may treat itself as empty) and calls New
Get(g) ==
    /\ gpc[g] = "idle"
    /\ \/ \E i \in 1..MaxIdx :
            /\ idPool[i] > 0
            /\ idPool' = [idPool EXCEPT ![i] = @ - 1]
            /\ gid' = [gid EXCEPT ![g] = i]
            /\ gpc' = [gpc EXCEPT ![g] = "live"]
       \/ /\ idx < MaxIdx
          /\ gpc' = [gpc EXCEPT ![g] = "new_load"]
          /\ UNCHANGED <<idPool, gid>>
    /\ UNCHANGED <<idx, gtmp>>
    /\ UNCHANGED <<queueVars, stateVars, nodeVars, seqVars, diffVars>>

\* New: idx++ loads idx without a lock
NewLoad(g) ==
    /\ gpc[g] = "new_load"
    /\ gtmp' = [gtmp EXCEPT ![g] = idx]
    /\ gpc' = [gpc EXCEPT ![g] = "new_store"]
    /\ UNCHANGED <<idx, idPool, gid>>
    /\ UNCHANGED <<queueVars, stateVars, nodeVars, seqVars, diffVars>>

\* New: idx++ stores the loaded value plus one
NewStore(g) ==
    /\ gpc[g] = "new_store"
    /\ idx' = gtmp[g] + 1
    /\ gtmp' = [gtmp EXCEPT ![g] = 0]
    /\ gpc' = [gpc EXCEPT ![g] = "new_return"]
    /\ UNCHANGED <<idPool, gid>>
    /\ UNCHANGED <<queueVars, stateVars, nodeVars, seqVars, diffVars>>

\* New: return idx
NewReturn(g) ==
    /\ gpc[g] = "new_return"
    /\ gid' = [gid EXCEPT ![g] = idx]
    /\ gpc' = [gpc EXCEPT ![g] = "live"]
    /\ UNCHANGED <<idx, idPool, gtmp>>
    /\ UNCHANGED <<queueVars, stateVars, nodeVars, seqVars, diffVars>>

\* idPool.Put(id): the instance is retired and its id goes back to the pool
Put(g) ==
    /\ gpc[g] = "live"
    /\ idPool' = [idPool EXCEPT ![gid[g]] = @ + 1]
    /\ gid' = [gid EXCEPT ![g] = 0]
    /\ gpc' = [gpc EXCEPT ![g] = "idle"]
    /\ UNCHANGED <<idx, gtmp>>
    /\ UNCHANGED <<queueVars, stateVars, nodeVars, seqVars, diffVars>>

\* a sync.Pool may drop an item it holds at any time
PoolDrop ==
    /\ \E i \in 1..MaxIdx :
        /\ idPool[i] > 0
        /\ idPool' = [idPool EXCEPT ![i] = @ - 1]
    /\ UNCHANGED <<idx, gpc, gtmp, gid>>
    /\ UNCHANGED <<queueVars, stateVars, nodeVars, seqVars, diffVars>>

NextIds ==
    \/ \E g \in Gors : Get(g)
    \/ \E g \in Gors : NewLoad(g)
    \/ \E g \in Gors : NewStore(g)
    \/ \E g \in Gors : NewReturn(g)
    \/ \E g \in Gors : Put(g)
    \/ PoolDrop

SpecIds == Init /\ [][NextIds]_vars

\* ------------------------------------------------------ the virtual nodes
\* the lists of at most MaxChildren nodes allocated so far
ChildLists ==
    UNION {[1..k -> 1..Len(heap)] : k \in 0..MaxChildren}

\* the loop of newChildren from position i on: h is the heap, o the list
\* built so far and lastText the text node that collects the current run
\* (0 is nil); lastText.Data += v.Data writes into the node itself
RECURSIVE newChildrenLoop(_, _, _, _, _)
newChildrenLoop(h, n, i, o, lastText) ==
    IF i > Len(n) THEN [heap |-> h, o |-> o]
    ELSE LET v == n[i] IN
         IF h[v].Type = TextNode
         THEN IF lastText # 0
              THEN newChildrenLoop(
                       [h EXCEPT ![lastText].Data = h[lastText].Data \o h[v].Data],
                       n, i + 1, o, lastText)
              ELSE newChildrenLoop(h, n, i + 1, Append(o, v), v)
         ELSE newChildrenLoop(h, n, i + 1, Append(o, v), 0)

\* newChildren(n...)
newChildren(h, n) == newChildrenLoop(h, n, 1, <<>>, 0)

\* NewNode(typ, ns, name, attrs, children...)
NewNode(typ, name, children) ==
    /\ Len(heap) < MaxNodes
    /\ LET r == newChildren(heap, children) IN
        /\ heap' = Append(r.heap, [Type |-> typ, Data |-> name, Children |-> r.o])
        /\ lastCall' = [children |-> children, ret |-> Len(heap) + 1]
    /\ UNCHANGED <<queueVars, stateVars, idVars, seqVars, diffVars>>

NextNode ==
    \E typ \in {TextNode, ElementNode}, name \in Names, children \in ChildLists :
        NewNode(typ, name, children)

SpecNode == Init /\ [][NextNode]_vars

\* ------------------------------------------------------- the virtual trees
\* the values the adapter hands out for null, undefined and a nil interface
NullValue == "null"
UndefinedVal == "undefined"
NilVal == "nil"

\* &Node{Type: TextNode, Data: data}
Text(data) == [Type |-> TextNode, Data |-> data, Attr |-> <<>>, Children |-> <<>>]

\* &Node{Type: ElementNode, Data: tag, Attr: attrs, Children: kids}
El(tag, attrs, kids) == [Type |-> ElementNode, Data |-> tag, Attr |-> attrs, Children |-> kids]

\* a node of a type that idiff does not handle
Comment(data) == [Type |-> CommentNode, Data |-> data, Attr |-> <<>>, Children |-> <<>>]

\* Attribute{Key: k, Val: v}
At(k, v) == [Key |-> k, Val |-> v]

\* the registered components: what each renders, and whether its
\* constructor reports a failure
Registered ==
    [item   |-> [render |-> El("li", <<>>, <<>>), fails |-> FALSE],
     other  |-> [render |-> El("li", <<>>, <<>>), fails |-> FALSE],
     label  |-> [render |-> Text("t"), fails |-> FALSE],
     broken |-> [render |-> El("li", <<>>, <<>>), fails |-> TRUE]]

\* ------------------------------------------------------------ the document
\* A world is the record the reconciler works on: the document, the
\* component cache and the fields of Vected, with the panic that stopped it
\* ("" if none), the handle returned by the latest call (ret, 0 is nil), the
\* tags of the virtual elements whose idiff is under way (stack) and what has
\* been done so far (log).

\* Valid(e): e is neither nil, null nor undefined
Valid(e) == e # 0

\* a fresh document node
DomNode(isText, name, value) ==
    [text |-> isText, name |-> name, value |-> value, parent |-> 0,
     kids |-> <<>>, marked |-> FALSE, attrs |-> <<>>, owner |-> 0]

\* one entry of the log
Ev(op, n, x) == [op |-> op, n |-> n, x |-> x]

Logged(w, op, n, x) == [w EXCEPT !.log = Append(@, Ev(op, n, x))]

\* the document without the link between n and its parent
Detach(d, n) ==
    IF d[n].parent = 0 THEN d
    ELSE [[d EXCEPT ![d[n].parent].kids = Remove(@, n)] EXCEPT ![n].parent = 0]

\* elem.Get("firstChild"), elem.Get("nextSibling"), childNodes.Index(i)
firstChild(d, n) == IF Len(d[n].kids) = 0 THEN 0 ELSE d[n].kids[1]

nextSibling(d, n) ==
    IF d[n].parent = 0 THEN 0
    ELSE LET k == d[d[n].parent].kids
             i == CHOOSE j \in 1..Len(k) : k[j] = n
         IN IF i < Len(k) THEN k[i + 1] ELSE 0

childAt(d, n, i) == IF i + 1 <= Len(d[n].kids) THEN d[n].kids[i + 1] ELSE 0

\* Document.Call("createTextNode", data)
createTextNode(w, data) ==
    LET n == Len(w.dom) + 1 IN
    Logged([w EXCEPT !.dom = Append(@, DomNode(TRUE, "", data)), !.ret = n],
           "create", n, data)

\* CreateNode(nodeName)
CreateNode(w, nodeName) ==
    LET n == Len(w.dom) + 1 IN
    Logged([w EXCEPT !.dom = Append(@, DomNode(FALSE, nodeName, NullValue)), !.ret = n],
           "create", n, nodeName)

\* RemoveNode(node): take node out of its parent, if it has one
RemoveNode(w, n) ==
    IF w.dom[n].parent = 0 THEN w
    ELSE Logged([w EXCEPT !.dom = Detach(@, n)], "removeChild", n, w.dom[n].parent)

\* parent.Call("appendChild", c)
appendChild(w, p, c) ==
    LET d == Detach(w.dom, c) IN
    Logged([w EXCEPT !.dom = [[d EXCEPT ![p].kids = Append(@, c)] EXCEPT ![c].parent = p]],
           "appendChild", c, p)

\* insertBefore that puts the node behind the last child
insertAtEnd(w, p, c, f) == appendChild(w, p, c)

\* parent.Call("insertBefore", c, f)
insertBefore(w, p, c, f) ==
    LET d == Detach(w.dom, c)
        k == d[p].kids
        i == CHOOSE j \in 1..Len(k) : k[j] = f
    IN Logged([w EXCEPT !.dom =
                  [[d EXCEPT ![p].kids = SubSeq(k, 1, i - 1) \o <<c>> \o SubSeq(k, i, Len(k))]
                      EXCEPT ![c].parent = p]],
              "insertBefore", c, f)

\* parent.Call("replaceChild", new, old)
replaceChild(w, p, new, old) ==
    LET d == Detach(w.dom, new)
        k == d[p].kids
    IN Logged([w EXCEPT !.dom =
                  [[[d EXCEPT ![p].kids = [j \in 1..Len(k) |-> IF k[j] = old THEN new ELSE k[j]]]
                      EXCEPT ![new].parent = p]
                      EXCEPT ![old].parent = 0]],
              "replaceChild", new, old)

\* elem.Set("nodeValue", data)
setNodeValue(w, n, data) ==
    Logged([w EXCEPT !.dom = [@ EXCEPT ![n].value = data]], "nodeValue", n, data)

\* strings.TrimSpace(v) != ""
NotBlank(v) == v # " " /\ v # ""

\* the attributes of a list as a map: mapAtts
mapAtts(attrs) ==
    [k \in {attrs[i].Key : i \in 1..Len(attrs)} |->
        LET i == CHOOSE j \in 1..Len(attrs) :
                     attrs[j].Key = k /\ \A x \in (j + 1)..Len(attrs) : attrs[x].Key # k
        IN attrs[i].Val]

\* a set as a sequence, in some order
RECURSIVE SetToSeq(_)
SetToSeq(S) ==
    IF S = {} THEN <<>>
    ELSE LET x == CHOOSE y \in S : TRUE IN <<x>> \o SetToSeq(S \ {x})

\* SetAccessor(cb, node, k, old, new, isSVGMode): the attribute k of node
\* becomes new, or is removed when new is the undefined value
SetAccessor(w, n, k, old, new) ==
    LET rest == SelectSeq(w.dom[n].attrs, LAMBDA a : a.Key # k)
        now == IF new = UndefinedVal THEN rest
               ELSE Append(rest, [Key |-> k, Val |-> new])
    IN Logged([w EXCEPT !.dom = [@ EXCEPT ![n].attrs = now]],
              "setAccessor", n, [key |-> k, old |-> old, new |-> new, svg |-> w.isSVGMode])

RECURSIVE SetAccessors(_, _, _)
SetAccessors(w, n, calls) ==
    IF Len(calls) = 0 THEN w
    ELSE SetAccessors(SetAccessor(w, n, calls[1].key, calls[1].old, calls[1].new),
                      n, Tail(calls))

\* diffAttributes that leaves out the keys whose value has not changed
diffAttributesChanged(w, n, attrs, old) ==
    LET a == mapAtts(attrs)
        b == mapAtts(old)
        clears == SetToSeq({[key |-> k, old |-> b[k], new |-> UndefinedVal] :
                               k \in DOMAIN b \ DOMAIN a})
        sets == SetToSeq({[key |-> k,
                           old |-> IF k \in DOMAIN b THEN b[k] ELSE NilVal,
                           new |-> a[k]] :
                             k \in {x \in DOMAIN a \ {"children", "innerHTML"} :
                                       x \in DOMAIN b => a[x] # b[x]}})
    IN SetAccessors(w, n, clears \o sets)

\* diffAttributes(node, attrs, old)
diffAttributes(w, n, attrs, old) ==
    LET a == mapAtts(attrs)
        b == mapAtts(old)
        clears == SetToSeq({[key |-> k, old |-> b[k], new |-> UndefinedVal] :
                               k \in DOMAIN b \ DOMAIN a})
        sets == SetToSeq({[key |-> k,
                           old |-> IF k \in DOMAIN b THEN b[k] ELSE NilVal,
                           new |-> a[k]] :
                             k \in DOMAIN a \ {"children", "innerHTML"}})
    IN SetAccessors(w, n, clears \o sets)

\* isNamedNode(elem, vnode)
isNamedNode(d, e, vnode) == d[e].name # "" /\ d[e].name = vnode.Data

\* isSameNodeType(elem, vnode, isHydrating)
isSameNodeType(d, e, vnode) ==
    IF vnode.Type = TextNode THEN d[e].text
    ELSE IF vnode.Type = ElementNode THEN isNamedNode(d, e, vnode)
    ELSE FALSE

\* Node.Key(): the value of the first attribute named key, "" without one
Key(vnode) ==
    IF \E i \in 1..Len(vnode.Attr) : vnode.Attr[i].Key = "key"
    THEN vnode.Attr[CHOOSE i \in 1..Len(vnode.Attr) :
                       /\ vnode.Attr[i].Key = "key"
                       /\ \A j \in 1..(i - 1) : vnode.Attr[j].Key # "key"].Val
    ELSE ""

\* findComponent(node): the instance that owns the node, 0 without one
findComponent(w, n) == IF n = 0 THEN 0 ELSE w.dom[n].owner

\* isHigherOrder(node): the tag names a registered component
isHigherOrder(vnode) == vnode.Data \in DOMAIN Registered

\* elements.Valid(name): name is an element of HTML
elementsValid(name) == name \notin {"svg", "foreignObject"}

\* ---------------------------------------------------------- the reconciler
\* panic(msg): the pass stops here
Panic(w, msg) == [w EXCEPT !.panicked = msg]

Ok(w) == w.panicked = ""

\* e as the argument of F: a local variable x := e with the statements F
\* that follow it
Let(e, F(_)) == F(e)

\* parent.Get("ownerSVGElement"): the node lies below an svg element
RECURSIVE ownerSVGElement(_, _)
ownerSVGElement(d, n) ==
    IF d[n].parent = 0 THEN FALSE
    ELSE IF d[d[n].parent].name = "svg" THEN TRUE
    ELSE ownerSVGElement(d, d[n].parent)

\* the walk of buildComponentFromVNode up the owning components
RECURSIVE ownerLoop(_, _, _, _)
ownerLoop(w, c, isOwner, node) ==
    IF c # 0 /\ ~isOwner
    THEN IF w.cache[c].parentComponent # 0
         THEN ownerLoop(w, w.cache[c].parentComponent,
                        w.cache[w.cache[c].parentComponent].constructor = node.Data, node)
         ELSE [c |-> 0, isOwner |-> isOwner]
    ELSE [c |-> c, isOwner |-> isOwner]

\* flushMounts: ComponentDidMount for every queued mount, from the back
RECURSIVE flushMounts(_)
flushMounts(w) ==
    IF Len(w.mounts) = 0 THEN w
    ELSE flushMounts(Logged([w EXCEPT !.mounts = SubSeq(@, 1, Len(@) - 1)],
                            "didMount", w.mounts[Len(w.mounts)], ""))

\* createComponentByName(name, props): a new instance of the registered
\* component, or the failure its constructor reports
createComponentByName(w, name) ==
    IF Registered[name].fails THEN Panic(Logged(w, "constructFailed", 0, name), "construct")
    ELSE Logged([w EXCEPT !.cache = Append(@, [constructor |-> name, key |-> "",
                                               base |-> 0, nextBase |-> 0,
                                               parentComponent |-> 0, component |-> 0]),
                          !.ret = Len(w.cache) + 1],
                "construct", Len(w.cache) + 1, name)

RECURSIVE idiff(_, _, _, _, _)
RECURSIVE idiffElement(_, _, _, _, _)
RECURSIVE innerDiffMode(_, _, _, _, _)
RECURSIVE innerLoop(_, _, _, _, _, _, _)
RECURSIVE recollectNodeTree(_, _, _)
RECURSIVE removeChildren(_, _)
RECURSIVE teardown(_, _, _)
RECURSIVE unmountComponent(_, _)
RECURSIVE buildComponentFromVNode(_, _, _, _, _)
RECURSIVE setProps(_, _, _, _, _)
RECURSIVE renderComponentSync(_, _, _)
RECURSIVE diff(_, _, _, _, _, _)

\* removeChildren(node): recollect the children of node, last one first
removeChildren(w, kids) ==
    IF Len(kids) = 0 THEN w
    ELSE removeChildren(recollectNodeTree(w, kids[Len(kids)], TRUE),
                        SubSeq(kids, 1, Len(kids) - 1))

\* unmountComponent(cmp): ComponentWillUnmount, then the base node leaves the
\* document and its children are recollected
unmountComponent(w, c) ==
    Let(w.cache[c].base, LAMBDA base :
    Let(Logged([w EXCEPT !.cache = [@ EXCEPT ![c].base = 0]], "unmount", c, base),
        LAMBDA w1 :
    IF base = 0 THEN w1
    ELSE Let(RemoveNode([w1 EXCEPT !.dom = [@ EXCEPT ![base].owner = 0]], base),
             LAMBDA w2 : removeChildren(w2, w2.dom[base].kids))))

recollectNodeTree(w, node, unmountOnly) ==
    Let(Logged(w, "recollect", node, unmountOnly), LAMBDA w1 :
    IF findComponent(w, node) # 0 THEN unmountComponent(w1, findComponent(w, node))
    ELSE Let(IF ~unmountOnly \/ ~w1.dom[node].marked THEN RemoveNode(w1, node) ELSE w1,
             LAMBDA w2 : removeChildren(w2, w2.dom[node].kids)))

\* the text branch of idiff
idiffText(w, elem, node) ==
    IF Valid(elem) /\ w.dom[elem].text /\ w.dom[elem].parent # 0
    THEN Let(IF w.dom[elem].value # node.Data THEN setNodeValue(w, elem, node.Data) ELSE w,
             LAMBDA w1 : [w1 EXCEPT !.dom = [@ EXCEPT ![elem].marked = TRUE], !.ret = elem])
    ELSE Let(createTextNode(w, node.Data), LAMBDA w1 :
         Let(w1.ret, LAMBDA out :
         Let(IF Valid(elem)
             THEN recollectNodeTree(
                      IF w1.dom[elem].parent # 0
                      THEN replaceChild(w1, w1.dom[elem].parent, out, elem)
                      ELSE w1,
                      elem, TRUE)
             ELSE w1,
             LAMBDA w2 : [w2 EXCEPT !.dom = [@ EXCEPT ![out].marked = TRUE], !.ret = out])))

\* lines 501 to 512 of idiff: the node the element branch works on, a new
\* one in w.ret when elem is missing or has another name
elementFor(w, elem, node) ==
    IF Valid(elem) /\ isNamedNode(w.dom, elem, node) THEN [w EXCEPT !.ret = elem]
    ELSE Let(CreateNode(w, node.Data), LAMBDA w2 :
         Let(w2.ret, LAMBDA out :
         IF ~Valid(elem) THEN w2
         ELSE Let(IF Valid(firstChild(w2.dom, elem))
                  THEN appendChild(w2, out, firstChild(w2.dom, elem)) ELSE w2,
                  LAMBDA a :
              Let(IF a.dom[elem].parent # 0
                  THEN replaceChild(a, a.dom[elem].parent, out, elem) ELSE a,
                  LAMBDA b : [recollectNodeTree(b, elem, TRUE) EXCEPT !.ret = out]))))

\* lines 525 to 536 of idiff: the children of out
childrenOf(w3, out, node, mountAll) ==
    Let(firstChild(w3.dom, out), LAMBDA fc :
    IF /\ ~w3.hydrating
       /\ Len(node.Children) = 1
       /\ node.Children[1].Type = TextNode
       /\ Valid(fc)
       /\ w3.dom[fc].text
       /\ nextSibling(w3.dom, fc) = 0
    THEN IF w3.dom[fc].value # node.Children[1].Data
         THEN setNodeValue(w3, fc, node.Children[1].Data) ELSE w3
    ELSE IF Len(node.Children) > 0 \/ Valid(fc)
         THEN innerDiffMode(w3, out, node.Children, mountAll, w3.hydrating)
         ELSE w3)

\* the element branch of idiff
idiffElement(w, elem, node, mountAll, prevSVGMode) ==
    IF isHigherOrder(node) THEN buildComponentFromVNode(w, elem, node, mountAll, FALSE)
    ELSE
    Let(elementFor([w EXCEPT !.isSVGMode =
                       IF ~elementsValid(node.Data)
                       THEN (IF node.Data = "svg" THEN TRUE
                             ELSE IF node.Data = "foreignObject" THEN FALSE ELSE @)
                       ELSE @],
                   elem, node),
        LAMBDA w3 :
    Let(w3.ret, LAMBDA out :
    IF ~w3.dom[out].marked /\ ~Valid(elem)
    THEN Panic(Logged(w3, "nilElement", out, ""), "nil")
    ELSE Let(IF ~w3.dom[out].marked THEN w3.dom[elem].attrs ELSE <<>>, LAMBDA old :
         Let(childrenOf(w3, out, node, mountAll), LAMBDA w4 :
         IF ~Ok(w4) THEN w4
         ELSE [diffAttributes(w4, out, node.Attr, old)
                  EXCEPT !.isSVGMode = prevSVGMode, !.ret = out]))))

\* idiff that passes over a node of a type it does not know
idiffLenient(w, elem, node, mountAll, componentRoot) ==
    Let(Logged([w EXCEPT !.stack = Append(@, node.Data)], "idiff", elem,
               [svg |-> w.isSVGMode, stack |-> w.stack, type |-> node.Type,
                hyd |-> w.hydrating]),
        LAMBDA w0 :
    Let(IF node.Type = TextNode THEN idiffText(w0, elem, node)
        ELSE IF node.Type = ElementNode
             THEN idiffElement(w0, elem, node, mountAll, w.isSVGMode)
        ELSE [w0 EXCEPT !.ret = elem],
        LAMBDA w1 :
    IF ~Ok(w1) THEN w1
    ELSE Logged([w1 EXCEPT !.stack = w.stack], "idiffReturn", w1.ret,
                [entry |-> w.isSVGMode, exit |-> w1.isSVGMode])))

\* idiff(elem, node, mountAll, componentRoot); the log keeps the mode, the
\* enclosing tags, the type of the node and hydrating at entry and the mode
\* at return
idiff(w, elem, node, mountAll, componentRoot) ==
    Let(Logged([w EXCEPT !.stack = Append(@, node.Data)], "idiff", elem,
               [svg |-> w.isSVGMode, stack |-> w.stack, type |-> node.Type,
                hyd |-> w.hydrating]),
        LAMBDA w0 :
    Let(IF node.Type = TextNode THEN idiffText(w0, elem, node)
        ELSE IF node.Type = ElementNode
             THEN idiffElement(w0, elem, node, mountAll, w.isSVGMode)
        ELSE Panic(Logged(w0, "unsupported", elem, node.Type), "Un supported node"),
        LAMBDA w1 :
    IF ~Ok(w1) THEN w1
    ELSE Logged([w1 EXCEPT !.stack = w.stack], "idiffReturn", w1.ret,
                [entry |-> w.isSVGMode, exit |-> w1.isSVGMode])))

\* the scan of the positional candidates from min on: the index of the first
\* one left that has the type of vchild, 0 without one
scan(d, children, min, vchild) ==
    IF \E j \in (min + 1)..Len(children) :
          children[j] # 0 /\ isSameNodeType(d, children[j], vchild)
    THEN CHOOSE j \in (min + 1)..Len(children) :
            /\ children[j] # 0 /\ isSameNodeType(d, children[j], vchild)
            /\ \A x \in (min + 1)..(j - 1) :
                  ~(children[x] # 0 /\ isSameNodeType(d, children[x], vchild))
    ELSE 0

\* the placement that leaves the document alone when the node is the next
\* sibling of the occupant of its slot
placeSkip(w1, elem, list, i) ==
    Let(w1.ret, LAMBDA out :
    Let(childAt(w1.dom, elem, i), LAMBDA f :
    IF Ok(w1) /\ Valid(out) /\ out # elem /\ out # f
    THEN Let(Logged(w1, "place", out,
                    [list |-> list, i |-> i, f |-> f,
                     next |-> IF f = 0 THEN 0 ELSE nextSibling(w1.dom, f)]),
             LAMBDA p :
         IF f = 0 THEN appendChild(p, elem, out)
         ELSE IF out = nextSibling(p.dom, f) THEN p
         ELSE insertBefore(p, elem, out, f))
    ELSE w1))

\* lines 645 to 654 of innerDiffMode: the place of the node that idiff
\* returned for the i-th virtual child; the log keeps the slot, its occupant
\* f and the next sibling of f
place(w1, elem, list, i) ==
    Let(w1.ret, LAMBDA out :
    Let(childAt(w1.dom, elem, i), LAMBDA f :
    IF Ok(w1) /\ Valid(out) /\ out # elem /\ out # f
    THEN Let(Logged(w1, "place", out,
                    [list |-> list, i |-> i, f |-> f,
                     next |-> IF f = 0 THEN 0 ELSE nextSibling(w1.dom, f)]),
             LAMBDA p :
         IF f = 0 THEN appendChild(p, elem, out)
         ELSE IF out = nextSibling(p.dom, f) THEN RemoveNode(p, f)
         ELSE insertBefore(p, elem, out, f))
    ELSE w1))

\* the choice of the existing child that leaves a positional match among
\* the candidates
pickKeep(d, st, vchild) ==
    Let(Key(vchild), LAMBDA key :
    Let(IF key = "" /\ st.min < Len(st.children)
        THEN scan(d, st.children, st.min, vchild) ELSE 0,
        LAMBDA j :
    IF key # "" /\ key \in DOMAIN st.keys
    THEN [child |-> st.keys[key],
          keys |-> [k \in DOMAIN st.keys \ {key} |-> st.keys[k]],
          children |-> st.children, min |-> st.min]
    ELSE IF j # 0
    THEN [child |-> st.children[j],
          keys |-> st.keys,
          children |-> st.children,
          min |-> st.min]
    ELSE [child |-> 0, keys |-> st.keys, children |-> st.children, min |-> st.min]))

\* lines 624 to 643 of innerDiffMode: the existing child for vchild, and the
\* keys, the children and min without it
pick(d, st, vchild) ==
    Let(Key(vchild), LAMBDA key :
    Let(IF key = "" /\ st.min < Len(st.children)
        THEN scan(d, st.children, st.min, vchild) ELSE 0,
        LAMBDA j :
    IF key # "" /\ key \in DOMAIN st.keys
    THEN [child |-> st.keys[key],
          keys |-> [k \in DOMAIN st.keys \ {key} |-> st.keys[k]],
          children |-> st.children, min |-> st.min]
    ELSE IF j # 0
    THEN [child |-> st.children[j],
          keys |-> st.keys,
          children |-> [st.children EXCEPT ![j] = 0],
          min |-> IF j = st.min + 1 THEN st.min + 1 ELSE st.min]
    ELSE [child |-> 0, keys |-> st.keys, children |-> st.children, min |-> st.min]))

\* the loop of innerDiffMode over the virtual children, from the i-th on;
\* the log keeps the child found for each, with the keys, the candidates and
\* min that are left
innerLoop(w, elem, vchildrens, mountAll, list, st, i) ==
    IF ~Ok(w) \/ i >= Len(vchildrens)
    THEN [w |-> w, keys |-> st.keys, children |-> st.children, min |-> st.min]
    ELSE Let(pick(w.dom, st, vchildrens[i + 1]), LAMBDA st1 :
         innerLoop(place(idiff(Logged(w, "match", st1.child,
                                      [list |-> list, i |-> i, min |-> st1.min,
                                       children |-> st1.children,
                                       keys |-> {st1.keys[k] : k \in DOMAIN st1.keys}]),
                               st1.child, vchildrens[i + 1], mountAll, FALSE),
                         elem, list, i),
                   elem, vchildrens, mountAll, list, st1, i + 1))

\* the two loops that close innerDiffMode
teardown(w, list, nodes) ==
    IF Len(nodes) = 0 THEN w
    ELSE teardown(recollectNodeTree(Logged(w, "teardown", nodes[1], list), nodes[1], FALSE),
                  list, Tail(nodes))

\* the classification of an existing child: "key", "candidate" or "none"
classify(w, child, isHydrating) ==
    IF findComponent(w, child) # 0 /\ w.cache[findComponent(w, child)].key # "" THEN "key"
    ELSE IF findComponent(w, child) # 0 \/ w.dom[child].text
         THEN IF isHydrating
              THEN (IF NotBlank(w.dom[child].value) THEN "candidate" ELSE "none")
              ELSE "candidate"
         ELSE IF isHydrating THEN "candidate" ELSE "none"

\* lines 590 to 621 of innerDiffMode: the keys map, where a later child
\* takes the place of an earlier one with its key
keysOf(w, original, isHydrating) ==
    Let({i \in 1..Len(original) : classify(w, original[i], isHydrating) = "key"},
        LAMBDA keyed :
    [k \in {w.cache[findComponent(w, original[i])].key : i \in keyed} |->
        original[CHOOSE i \in keyed :
                    /\ w.cache[findComponent(w, original[i])].key = k
                    /\ \A x \in keyed :
                          w.cache[findComponent(w, original[x])].key = k => x <= i]])

\* lines 657 to 666 of innerDiffMode
teardownAll(r, list, elem) ==
    IF ~Ok(r.w) THEN r.w
    ELSE Logged(teardown(teardown(r.w, list, SetToSeq({r.keys[k] : k \in DOMAIN r.keys})),
                         list,
                         SelectSeq(SubSeq(r.children, r.min + 1, Len(r.children)),
                                   LAMBDA c : c # 0)),
                "listEnd", elem, list)

innerDiffMode(w, elem, vchildrens, mountAll, isHydrating) ==
    Let(keysOf(w, w.dom[elem].kids, isHydrating), LAMBDA keys :
    Let(SelectSeq(w.dom[elem].kids, LAMBDA c : classify(w, c, isHydrating) = "candidate"),
        LAMBDA children :
    teardownAll(innerLoop(Logged(w, "list", elem,
                                 [keys |-> {keys[k] : k \in DOMAIN keys},
                                  children |-> children,
                                  vkids |-> Len(vchildrens)]),
                          elem, vchildrens, mountAll, Len(w.log) + 1,
                          [keys |-> keys, children |-> children, min |-> 0], 0),
                Len(w.log) + 1, elem)))

\* setProps(cmp, props, mode, mountAll): the instance takes the key of its
\* props; a synchronous application renders at once, an asynchronous one
\* leaves the render to the queue
setProps(w, c, node, sync, mountAll) ==
    IF sync
    THEN renderComponentSync(Logged([w EXCEPT !.cache = [@ EXCEPT ![c].key = Key(node)]],
                                    "setProps", c, sync),
                             c, mountAll)
    ELSE Logged([w EXCEPT !.cache = [@ EXCEPT ![c].key = Key(node)]], "setProps", c, sync)

\* the render of one component: its rendered tree is diffed against its
\* base, as a component root, and the result becomes its base
renderComponentSync(w, c, mountAll) ==
    Let(w.cache[c].base # 0, LAMBDA isUpdate :
    Let(IF isUpdate THEN w.cache[c].base ELSE w.cache[c].nextBase, LAMBDA cbase :
    Let(diff(w, cbase, Registered[w.cache[c].constructor].render,
             IF cbase # 0 THEN w.dom[cbase].parent ELSE 0,
             mountAll \/ ~isUpdate, TRUE),
        LAMBDA w1 :
    IF ~Ok(w1) THEN w1
    ELSE [w1 EXCEPT !.cache = [@ EXCEPT ![c].base = w1.ret, ![c].nextBase = 0],
                    !.dom = IF w1.ret # 0 THEN [@ EXCEPT ![w1.ret].owner = c] ELSE @,
                    !.mounts = IF isUpdate THEN @ ELSE <<c>> \o @])))

\* lines 566 to 583 of buildComponentFromVNode: a new instance for the slot
mountNew(w, elem, node, mountAll, originalComponent, isDirectOwner) ==
    Let(originalComponent # 0 /\ ~isDirectOwner, LAMBDA drop :
    Let(IF drop THEN 0 ELSE elem, LAMBDA elem1 :
    Let(createComponentByName(IF drop THEN unmountComponent(w, originalComponent) ELSE w,
                              node.Data),
        LAMBDA w2 :
    IF ~Ok(w2) THEN w2
    ELSE
    Let(w2.ret, LAMBDA c :
    Let(elem1 # 0 /\ ~Valid(w2.cache[c].nextBase), LAMBDA adopt :
    Let(IF adopt THEN 0 ELSE elem1, LAMBDA oldElem :
    Let(setProps(IF adopt THEN [w2 EXCEPT !.cache = [@ EXCEPT ![c].nextBase = elem1]]
                 ELSE w2,
                 c, node, TRUE, mountAll),
        LAMBDA w4 :
    IF ~Ok(w4) THEN w4
    ELSE IF oldElem # 0 /\ w4.cache[c].base # oldElem
         THEN [recollectNodeTree([w4 EXCEPT !.dom = [@ EXCEPT ![oldElem].owner = 0]],
                                 oldElem, FALSE)
                  EXCEPT !.ret = w4.cache[c].base]
         ELSE [w4 EXCEPT !.ret = w4.cache[c].base])))))))

buildComponentFromVNode(w, elem, node, mountAll, componentRoot) ==
    Let(findComponent(w, elem), LAMBDA originalComponent :
    Let(originalComponent # 0 /\ w.cache[originalComponent].constructor = node.Data,
        LAMBDA isDirectOwner :
    Let(ownerLoop(w, originalComponent, isDirectOwner, node), LAMBDA o :
    IF o.c # 0 /\ o.isOwner /\ (~mountAll \/ w.cache[o.c].component # 0)
    THEN Let(setProps(w, o.c, node, FALSE, mountAll),
             LAMBDA w1 : [w1 EXCEPT !.ret = w1.cache[o.c].base])
    ELSE mountNew(w, elem, node, mountAll, originalComponent, isDirectOwner))))

\* lines 451 to 463 of diff: what follows the idiff call
diffReturn(w, w2, parent, componentRoot) ==
    IF ~Ok(w2) THEN w2
    ELSE IF Valid(parent) /\ w2.ret = 0 THEN Panic(w2, "nil")
    ELSE
    Let(w2.ret, LAMBDA ret :
    Let(IF Valid(parent) /\ w2.dom[ret].parent # parent
        THEN appendChild(w2, parent, ret) ELSE w2,
        LAMBDA w3 :
    Let([w3 EXCEPT !.diffLevel = @ - 1], LAMBDA w4 :
    Let(IF w4.diffLevel = 0
        THEN IF ~componentRoot
             THEN flushMounts(Logged([w4 EXCEPT !.hydrating = FALSE], "reset", ret, w.depth))
             ELSE Logged([w4 EXCEPT !.hydrating = FALSE], "reset", ret, w.depth)
        ELSE w4,
        LAMBDA w5 :
    Logged([w5 EXCEPT !.depth = @ - 1, !.ret = ret], "diffReturn", ret,
           [entry |-> w.diffLevel, exit |-> w5.diffLevel, depth |-> w.depth])))))

\* diff(elem, node, parent, mountAll, componentRoot); depth is the number of
\* diff calls under way, which the log keeps next to diffLevel
diff(w, elem, node, parent, mountAll, componentRoot) ==
    Let(Logged([w EXCEPT !.depth = @ + 1], "diff", elem,
               [level |-> w.diffLevel, depth |-> w.depth]),
        LAMBDA w0 :
    diffReturn(w,
               idiff(IF w.diffLevel = 0
                     THEN Logged([w0 EXCEPT
                                     !.diffLevel = @ + 1,
                                     !.isSVGMode = parent # 0 /\ ownerSVGElement(w0.dom, parent),
                                     !.hydrating = Valid(elem) /\ w0.dom[elem].marked],
                                 "compute", elem, w.depth)
                     ELSE w0,
                     elem, node, mountAll, componentRoot),
               parent, componentRoot))

\* ------------------------------------------------------- passes of the diff
\* the description of a document node that is there before the first pass:
\* a text node, an element, or the base element of a mounted component
DText(value, marked) ==
    [text |-> TRUE, name |-> "", value |-> value, marked |-> marked,
     ctor |-> "", key |-> "", attrs |-> <<>>, kids |-> <<>>]

DEl(name, marked, attrs, kids) ==
    [text |-> FALSE, name |-> name, value |-> NullValue, marked |-> marked,
     ctor |-> "", key |-> "", attrs |-> attrs, kids |-> kids]

DCmp(ctor, key) ==
    [text |-> FALSE, name |-> "li", value |-> NullValue, marked |-> FALSE,
     ctor |-> ctor, key |-> key, attrs |-> <<>>, kids |-> <<>>]

\* the document and the component cache with the described node below parent
RECURSIVE Load(_, _, _)
RECURSIVE LoadAll(_, _, _)
Load(s, desc, parent) ==
    LET n == Len(s.dom) + 1
        c == IF desc.ctor # "" THEN Len(s.cache) + 1 ELSE 0
        node == [DomNode(desc.text, desc.name, desc.value)
                    EXCEPT !.parent = parent, !.marked = desc.marked,
                           !.owner = c, !.attrs = desc.attrs]
        linked == IF parent # 0 THEN [s.dom EXCEPT ![parent].kids = Append(@, n)]
                  ELSE s.dom
    IN LoadAll([dom |-> Append(linked, node),
                cache |-> IF c = 0 THEN s.cache
                          ELSE Append(s.cache,
                                      [constructor |-> desc.ctor, key |-> desc.key,
                                       base |-> n, nextBase |-> 0,
                                       parentComponent |-> 0, component |-> 0])],
               desc.kids, n)

LoadAll(s, descs, parent) ==
    IF Len(descs) = 0 THEN s
    ELSE LoadAll(Load(s, descs[1], parent), Tail(descs), parent)

\* the sequences over S without a repeated element, of length lo to hi
Arrangements(S, lo, hi) ==
    {s \in UNION {[1..n -> S] : n \in lo..hi} :
        \A i, j \in 1..Len(s) : i # j => s[i] # s[j]}

\* the keys of the mounted components
CmpKeys == {"1", "2", "3"}

\* the children of the documents that hold mounted components with keys
KeyedKids == {[i \in 1..Len(s) |-> DCmp("item", s[i])] : s \in Arrangements(CmpKeys, 2, 3)}

\* the children of the other documents
PlainKids ==
    {<<>>,
     <<DEl("li", FALSE, <<>>, <<>>)>>,
     <<DEl("li", FALSE, <<>>, <<>>), DEl("li", FALSE, <<>>, <<>>)>>,
     <<DText("a", TRUE)>>,
     <<DText("a", TRUE), DText("b", TRUE)>>,
     <<DText(" ", FALSE), DEl("li", FALSE, <<>>, <<>>)>>,
     <<DText("a", TRUE), DEl("li", FALSE, <<At("class", "x")>>, <<>>), DText(" ", FALSE)>>,
     <<DCmp("item", "")>>,
     <<DCmp("item", ""), DCmp("item", "")>>,
     <<DCmp("item", "1"), DEl("li", FALSE, <<>>, <<>>), DText("a", TRUE)>>,
     <<DEl("p", FALSE, <<>>, <<DText("a", TRUE), DEl("b", FALSE, <<>>, <<>>)>>)>>}

\* an svg document: svg > (g, foreignObject > div, g)
SvgKids ==
    <<DEl("g", FALSE, <<>>, <<>>),
      DEl("foreignObject", FALSE, <<>>, <<DEl("div", FALSE, <<>>, <<>>)>>),
      DEl("g", FALSE, <<>>, <<>>)>>

\* the documents a first pass can find: a ul or an svg with children, with
\* and without the marker that makes the pass a hydration
Documents ==
    {DEl("ul", m, <<>>, k) : m \in BOOLEAN, k \in KeyedKids \cup PlainKids}
    \cup {DEl("svg", m, <<>>, SvgKids) : m \in BOOLEAN}
    \cup {DEl("svg", TRUE, <<>>, <<DEl("li", FALSE, <<>>, <<>>), DEl("li", FALSE, <<>>, <<>>)>>)}
    \cup {DCmp("item", "1"), DText("a", TRUE), DEl("li", FALSE, <<>>, <<>>)}

\* the virtual children of the trees that name components by key
KeyedVKids ==
    {[i \in 1..Len(s) |-> El("item", <<At("key", s[i])>>, <<>>)] :
        s \in Arrangements(CmpKeys, 1, 3)}

PlainVKids ==
    {<<>>,
     <<El("li", <<>>, <<>>)>>,
     <<El("li", <<>>, <<>>), El("li", <<>>, <<>>)>>,
     <<Text("a")>>,
     <<Text("b")>>,
     <<Text("a"), El("li", <<At("class", "y")>>, <<>>)>>,
     <<El("li", <<>>, <<>>), Text("a")>>,
     <<El("item", <<>>, <<>>)>>,
     <<El("other", <<At("key", "1")>>, <<>>)>>,
     <<El("broken", <<At("key", "1")>>, <<>>)>>,
     <<Comment("c")>>,
     <<El("li", <<>>, <<>>), Comment("c")>>,
     <<El("p", <<>>, <<Text("a"), El("b", <<>>, <<>>)>>)>>}

\* the virtual trees handed to a pass
Trees ==
    {El("ul", <<>>, k) : k \in KeyedVKids \cup PlainVKids}
    \cup {El("svg", <<>>, <<El("g", <<>>, <<>>),
                            El("foreignObject", <<>>, <<El("div", <<>>, <<>>)>>),
                            El("g", <<>>, <<>>)>>),
          El("svg", <<>>, <<El("label", <<>>, <<>>), El("label", <<>>, <<>>)>>),
          El("item", <<>>, <<>>),
          El("item", <<At("key", "1")>>, <<>>),
          El("other", <<>>, <<>>),
          El("broken", <<>>, <<>>),
          Text("b"),
          Comment("c")}

\* the state of Vected and of the document as a world, and back
World == [dom |-> dom, cache |-> cache, isSVGMode |-> isSVGMode,
          hydrating |-> hydrating, diffLevel |-> diffLevel, mounts |-> mounts,
          panicked |-> "", log |-> <<>>, ret |-> 0, stack |-> <<>>, depth |-> 0]

Becomes(w) ==
    /\ dom' = w.dom
    /\ cache' = w.cache
    /\ isSVGMode' = w.isSVGMode
    /\ hydrating' = w.hydrating
    /\ diffLevel' = w.diffLevel
    /\ mounts' = w.mounts
    /\ panicked' = w.panicked
    /\ log' = w.log

\* a document is there, with the diffed node as the child of body, and
\* nothing has been diffed yet
InitDocument ==
    /\ InitBase
    /\ \E desc \in Documents :
          LET s == Load([dom |-> <<>>, cache |-> <<>>],
                        DEl("body", FALSE, <<>>, <<desc>>), 0) IN
          /\ dom = s.dom
          /\ cache = s.cache
    /\ root = 2
    /\ isSVGMode = FALSE
    /\ hydrating = FALSE
    /\ diffLevel = 0
    /\ mounts = <<>>
    /\ panicked = ""
    /\ log = <<>>
    /\ vtree = Text("")
    /\ passes = 0

\* one pass: v.diff(root, vt, parent, false, false); a later pass diffs the
\* same tree again
Render(vt) ==
    /\ passes < MaxPasses
    /\ panicked = ""
    /\ passes > 0 => vt = vtree
    /\ LET w == diff(World, root, vt, IF root = 0 THEN 0 ELSE dom[root].parent, FALSE, FALSE) IN
       /\ Becomes(w)
       /\ root' = IF Ok(w) THEN w.ret ELSE root
    /\ vtree' = vt
    /\ passes' = passes + 1
    /\ UNCHANGED <<queueVars, stateVars, idVars, nodeVars, seqVars>>

NextDiff == \E vt \in Trees : Render(vt)

SpecDiff == InitDocument /\ [][NextDiff]_vars

\* ------------------------------------------------- diffAttributes by itself
\* the attribute lists handed to diffAttributes
AttrLists ==
    UNION {[1..n -> {At("class", "x"), At("class", "y"), At("id", "x"), At("id", "y"),
                     At("children", "x"), At("innerHTML", "x")}] : n \in 0..MaxAttrs}

\* an element with the old attributes, a virtual node with the new ones
InitAttr ==
    /\ InitBase
    /\ \E old \in AttrLists : dom = <<[DomNode(FALSE, "div", NullValue) EXCEPT !.attrs = old]>>
    /\ \E attrs \in AttrLists : vtree = El("div", attrs, <<>>)
    /\ cache = <<>>
    /\ root = 1
    /\ isSVGMode = FALSE
    /\ hydrating = FALSE
    /\ diffLevel = 0
    /\ mounts = <<>>
    /\ panicked = ""
    /\ log = <<>>
    /\ passes = 0

\* v.diffAttributes(node, attrs, old)
DiffAttributes ==
    /\ passes = 0
    /\ Becomes(diffAttributes(World, root, vtree.Attr, dom[root].attrs))
    /\ passes' = passes + 1
    /\ UNCHANGED <<vtree, root, queueVars, stateVars, idVars, nodeVars, seqVars>>

NextAttr == DiffAttributes

SpecAttr == InitAttr /\ [][NextAttr]_vars

\* ------------------------------------------------------ render queue claims
\* no call is under way, no drain goroutine is running and the queue is empty
Quiescent ==
    /\ components = <<>>
    /\ ActiveDrains = {}
    /\ \A u \in Callers : upc[u] = "idle"

\* C1: every pushed entry is returned by at most one Pop call
C1_PopAtMostOnce ==
    \A e \in 1..Len(popReturns) : popReturns[e] <= 1

\* C2: an instance pushed while a render of it was in flight is rendered
\* again: when everything has come to rest, no such instance is left without
\* a render that started after the push
C2_ReenqueueRendered ==
    Quiescent => \A c \in Cmps : ~owed[c]

\* C3: the state of an instance holds every key supplied by any SetState
\* call, each with the most recently supplied value
C3_StateHoldsAllSupplied ==
    \A c \in Cmps : \A k \in Keys :
        supplied[c][k] # None => state[c][k] = supplied[c][k]

\* C4: at most one drain goroutine is active at any time
C4_AtMostOneDrain ==
    Cardinality(ActiveDrains) <= 1

\* C5: no instance is inside renderComponent in two drain goroutines at once
C5_NoConcurrentRender ==
    \A c \in Cmps : Cardinality(Rendering(c)) <= 1

\* C8: the steps of enqueue: the first leaves the dirty flag of the instance
\* set and the queue as it is; Push adds exactly one new entry for the
\* instance at the back, also when the instance is queued already, and keeps
\* every other entry; the last starts exactly one drain goroutine and leaves
\* the queue as it is; until enqueue returns the flag is cleared by nothing
\* but a renderComponent of that instance that completes
C8_EnqueueEffect ==
    [][\A u \in Callers :
        /\ (upc[u] = "enq_dirty" /\ upc'[u] # "enq_dirty") =>
              /\ dirty'[uarg[u]]
              /\ \A c \in Cmps \ {uarg[u]} : dirty'[c] = dirty[c]
              /\ components' = components
              /\ dpc' = dpc
        /\ (upc[u] = "enq_push" /\ upc'[u] # "enq_push") =>
              /\ Len(components') = Len(components) + 1
              /\ SubSeq(components', 1, Len(components)) = components
              /\ Back(components') \notin Range(components)
              /\ Back(components') \notin 1..Len(elemValue)
              /\ elemValue'[Back(components')] = uarg[u]
              /\ dirty' = dirty
              /\ dpc' = dpc
        /\ (upc[u] = "enq_go" /\ upc'[u] # "enq_go") =>
              /\ \E d \in Drains :
                    /\ dpc[d] = "none"
                    /\ dpc' = [dpc EXCEPT ![d] = "last"]
              /\ components' = components
              /\ dirty' = dirty
        /\ (upc[u] \in {"enq_push", "enq_go"} /\ dirty[uarg[u]] /\ ~dirty'[uarg[u]]) =>
              \E d \in Drains :
                    /\ dpc[d] = "render"
                    /\ dpc'[d] = "last"
                    /\ elemValue[de[d]] = uarg[u]
      ]_vars

\* an instance that is dirty and queued twice, with a drain goroutine started
C8_Witness ==
    \E i, j \in 1..Len(components) :
        /\ i < j
        /\ elemValue[components[i]] = elemValue[components[j]]
        /\ dirty[elemValue[components[i]]]
        /\ \E d \in Drains : dpc[d] # "none"

\* C9 as stated: a popped instance is rendered if and only if its dirty flag
\* was set when pop removed it from the queue
C9_RenderIffDirtyAtPop ==
    [][\A d \in Drains :
        (dpc[d] = "check" /\ dpc'[d] # "check") =>
            (dpc'[d] = "render" <=> dirtyAtPop[d])
      ]_vars

\* C9 amended: a popped instance is rendered if and only if its dirty flag
\* is set when the drain goroutine tests it, after Pop has returned; a test
\* follows every Pop that returned an instance and nothing else, a render
\* starts only from a test, and after the render or the discard the
\* goroutine is back at Pop
C9_RenderIffDirtyAtTest ==
    [][\A d \in Drains :
        /\ (dpc[d] = "check" /\ dpc'[d] # "check") =>
              IF dirty[elemValue[de[d]]]
              THEN dpc'[d] = "render" /\ de'[d] = de[d]
              ELSE dpc'[d] = "last"
        /\ (dpc'[d] = "check" /\ dpc[d] # "check") =>
              dpc[d] = "remove" /\ de[d] # 0 /\ de'[d] = de[d]
        /\ (dpc'[d] = "render" /\ dpc[d] # "render") => dpc[d] = "check"
        /\ (dpc[d] = "render" /\ dpc'[d] # "render") => dpc'[d] = "last"
      ]_vars

\* a popped instance that is not dirty is about to be discarded, after an
\* earlier Pop has returned another entry
C9_Witness ==
    \E d \in Drains :
        /\ dpc[d] = "check"
        /\ ~dirty[elemValue[de[d]]]
        /\ \E e \in 1..Len(popReturns) : e # de[d] /\ popReturns[e] >= 1

\* every drain goroutine has returned and the queue is empty
Drained ==
    /\ components = <<>>
    /\ \A d \in Drains : dpc[d] \in {"none", "done"}

\* C10: under fair scheduling the queue eventually becomes and stays empty
\* and every drain goroutine eventually returns; last returns nil exactly
\* when the queue is empty, and a drain goroutine returns only from a pop
\* whose last returned nil
C10_EventuallyDrained ==
    /\ <>[]Drained
    /\ [][\A d \in Drains :
            /\ (dpc[d] = "last" /\ dpc'[d] # "last") =>
                  (de'[d] = 0 <=> components = <<>>)
            /\ (dpc'[d] = "done" /\ dpc[d] # "done") =>
                  dpc[d] = "remove" /\ de[d] = 0
         ]_vars

\* all the calls have been made, the entries have been popped and the drain
\* goroutines have returned
C10_Witness ==
    /\ Drained
    /\ ncalls = MaxEnqueue
    /\ Len(elemValue) = MaxEnqueue
    /\ \A e \in 1..Len(popReturns) : popReturns[e] >= 1
    /\ \A d \in 1..MaxEnqueue : dpc[d] = "done"

\* ---------------------------------------------------------- id pool claims
\* C6: no two ids that were handed out and not yet returned are equal
C6_LiveIdsDistinct ==
    \A g1, g2 \in Gors :
        (g1 # g2 /\ gpc[g1] = "live" /\ gpc[g2] = "live") => gid[g1] # gid[g2]

\* ------------------------------------------------------------ node claims
\* the children list the claim describes, from the nodes as they are when
\* NewNode is called: a record for every maximal run of text nodes, with
\* the concatenation of the run's Data, and a record for every other node
RECURSIVE Merged(_, _, _, _)
Merged(h, n, i, acc) ==
    IF i > Len(n) THEN acc
    ELSE IF h[n[i]].Type = TextNode
         THEN IF i > 1 /\ h[n[i - 1]].Type = TextNode
              THEN Merged(h, n, i + 1,
                       [acc EXCEPT ![Len(acc)].data = @ \o h[n[i]].Data])
              ELSE Merged(h, n, i + 1,
                       Append(acc, [text |-> TRUE, node |-> 0, data |-> h[n[i]].Data]))
         ELSE Merged(h, n, i + 1,
                  Append(acc, [text |-> FALSE, node |-> n[i], data |-> h[n[i]].Data]))

\* the children list of node r as the heap h has it, in the same form
View(h, r) ==
    [i \in 1..Len(h[r].Children) |->
        LET c == h[r].Children[i] IN
        [text |-> h[c].Type = TextNode,
         node |-> IF h[c].Type = TextNode THEN 0 ELSE c,
         data |-> h[c].Data]]

\* C7: after NewNode the Children list has no two consecutive text nodes,
\* every maximal run of adjacent text nodes has become one text node whose
\* Data is the concatenation of the run's Data in order, and the other nodes
\* are kept unchanged and in their order
C7_TextRunsMerged ==
    [][lastCall' # lastCall =>
        LET n == lastCall'.children
            r == lastCall'.ret
            res == heap'[r].Children
        IN  /\ \A i \in 1..(Len(res) - 1) :
                  ~(heap'[res[i]].Type = TextNode /\ heap'[res[i + 1]].Type = TextNode)
            /\ View(heap', r) = Merged(heap, n, 1, <<>>)
            /\ \A i \in 1..Len(n) :
                  heap[n[i]].Type # TextNode => heap'[n[i]] = heap[n[i]]
      ]_vars

\* ----------------------------------------------------- sequential queue use
\* C11: with a single goroutine, Pop on a non-empty queue removes exactly
\* the entry pushed last among those in the queue and returns it, Pop on an
\* empty queue returns nil and leaves the queue empty, and Last returns the
\* entry Pop would return and leaves the queue as it is
C11_SequentialPop ==
    [][LET n == Len(components)
           newest == CHOOSE e \in Range(components) :
                         \A x \in Range(components) : x <= e
       IN
        /\ seqRet'.op = "pop" =>
              IF n > 0
              THEN /\ components' = SubSeq(components, 1, n - 1)
                   /\ components[n] = newest
                   /\ seqRet'.val = elemValue[newest]
                   /\ popReturns'[newest] = popReturns[newest] + 1
              ELSE /\ components' = <<>>
                   /\ seqRet'.val = NoCmp
        /\ seqRet'.op = "last" =>
              /\ components' = components
              /\ seqRet'.val = IF n > 0 THEN elemValue[newest] ELSE NoCmp
      ]_vars

\* Pop has returned an entry from a queue that held an older entry of the
\* other instance, which is still queued
C11_Witness ==
    /\ seqRet.op = "pop"
    /\ seqRet.val # NoCmp
    /\ components # <<>>
    /\ elemValue[components[Len(components)]] # seqRet.val
    /\ \E e \in 1..Len(popReturns) : popReturns[e] = 1 /\ e \notin Range(components)

\* ------------------------------------------------------- reconciler claims
\* the positions of the log that hold an event of one of the given kinds
Events(l, ops) == {i \in 1..Len(l) : l[i].op \in ops}

\* the key of the component that owns document node n, "" without one
KeyOfNode(d, c, n) == IF d[n].owner = 0 THEN "" ELSE c[d[n].owner].key

\* every child of node n is the base of a component with a key of its own
KeyedChildren(d, c, n) ==
    /\ Len(d[n].kids) > 0
    /\ \A i \in 1..Len(d[n].kids) : KeyOfNode(d, c, d[n].kids[i]) # ""
    /\ \A i, j \in 1..Len(d[n].kids) :
          i # j => KeyOfNode(d, c, d[n].kids[i]) # KeyOfNode(d, c, d[n].kids[j])

\* the virtual children of vt name, in some order, the components that own
\* the children of n, each by its key
SameKeys(d, c, n, vt) ==
    /\ vt.Type = ElementNode
    /\ Len(vt.Children) = Len(d[n].kids)
    /\ \A i \in 1..Len(vt.Children) :
          \E j \in 1..Len(d[n].kids) :
             /\ Key(vt.Children[i]) = KeyOfNode(d, c, d[n].kids[j])
             /\ vt.Children[i].Data = c[d[d[n].kids[j]].owner].constructor
    /\ \A i, j \in 1..Len(vt.Children) :
          i # j => Key(vt.Children[i]) # Key(vt.Children[j])

\* C12: when every child of the diffed element is owned by a component with
\* a distinct key and the virtual children carry those keys in any order,
\* the pass matches each virtual child to the node with its key, creates no
\* node, tears none down, and leaves the children in the virtual order.
C12_KeyedReorder ==
    [][(/\ passes' = passes + 1
        /\ root # 0
        /\ isNamedNode(dom, root, vtree')
        /\ KeyedChildren(dom, cache, root)
        /\ SameKeys(dom, cache, root, vtree'))
       => /\ panicked' = ""
          /\ root' = root
          /\ Events(log', {"create", "construct", "recollect", "unmount", "teardown"}) = {}
          /\ \A i \in Events(log', {"match"}) :
                /\ log'[i].n # 0
                /\ KeyOfNode(dom, cache, log'[i].n) = Key(vtree'.Children[log'[i].x.i + 1])
          /\ Len(dom'[root].kids) = Len(vtree'.Children)
          /\ \A i \in 1..Len(vtree'.Children) :
                /\ dom'[root].kids[i] \in Range(dom[root].kids)
                /\ KeyOfNode(dom, cache, dom'[root].kids[i]) = Key(vtree'.Children[i])
                /\ dom'[dom'[root].kids[i]].parent = root
      ]_vars

\* existing [1, 2, 3] has been reconciled with [3, 1, 2]: the three nodes
\* are the children, in the order 3, 1, 2
C12_Witness ==
    /\ passes = 1
    /\ panicked = ""
    /\ vtree.Type = ElementNode
    /\ Len(vtree.Children) = 3
    /\ <<Key(vtree.Children[1]), Key(vtree.Children[2]), Key(vtree.Children[3])>>
          = <<"3", "1", "2">>
    /\ dom[root].kids = <<5, 3, 4>>
    /\ \A i \in 3..5 : dom[i].owner = i - 2
    /\ <<cache[1].key, cache[2].key, cache[3].key>> = <<"1", "2", "3">>
    /\ Events(log, {"insertBefore"}) # {}

\* the children of node n that no keyed component owns and that, in a
\* hydration, are not text nodes of white space only
Candidates(d, c, n, isHydrating) ==
    SelectSeq(d[n].kids,
              LAMBDA k : /\ KeyOfNode(d, c, k) = ""
                         /\ isHydrating => ~(d[k].text /\ ~NotBlank(d[k].value)))

\* C13: outside hydration every non-keyed existing child is a positional
\* candidate, in a hydration all but the text nodes of white space only;
\* existing [li] against virtual [li, li] outside hydration reuses the li
\* for the first virtual child, creates and appends one node for the second
\* and removes nothing.
C13_UnkeyedCandidates ==
    [][(/\ passes' = passes + 1
        /\ diffLevel = 0
        /\ root # 0
        /\ isNamedNode(dom, root, vtree'))
       => /\ \A i \in Events(log', {"list"}) :
                log'[i].n = root
                   => log'[i].x.children = Candidates(dom, cache, root, dom[root].marked)
          /\ (/\ ~dom[root].marked
              /\ Len(dom[root].kids) = 1
              /\ ~dom[dom[root].kids[1]].text
              /\ dom[dom[root].kids[1]].owner = 0
              /\ Len(vtree'.Children) = 2
              /\ \A i \in 1..2 :
                    /\ vtree'.Children[i].Type = ElementNode
                    /\ vtree'.Children[i].Data = dom[dom[root].kids[1]].name
                    /\ Key(vtree'.Children[i]) = "")
             => /\ panicked' = ""
                /\ Cardinality(Events(log', {"create"})) = 1
                /\ Events(log', {"recollect", "removeChild", "unmount"}) = {}
                /\ Len(dom'[root].kids) = 2
                /\ dom'[root].kids[1] = dom[root].kids[1]
                /\ dom'[root].kids[2] = Len(dom) + 1
      ]_vars

\* the nodes that list reconciliation a of the log matched to a virtual child
Matched(l, a) ==
    {l[m].n : m \in {i \in Events(l, {"match"}) : l[i].x.list = a}} \ {0}

\* the teardown calls of list reconciliation a for node n
Teardowns(l, a, n) ==
    {t \in Events(l, {"teardown"}) : l[t].x = a /\ l[t].n = n}

\* C14: when the list reconciliation of the diffed element is over, every
\* keyed child and every positional candidate that no virtual child matched
\* has been torn down by recollectNodeTree exactly once, no matched child
\* has been torn down, and recollectNodeTree has unmounted the owning
\* component or else removed the node and gone into its children.
C14_StaleRemoval ==
    [][(/\ passes' = passes + 1
        /\ diffLevel = 0
        /\ root # 0
        /\ isNamedNode(dom, root, vtree')
        /\ panicked' = "")
       => \A a \in Events(log', {"list"}) :
             log'[a].n = root =>
                LET keyed == {k \in Range(dom[root].kids) : KeyOfNode(dom, cache, k) # ""}
                    cands == Range(Candidates(dom, cache, root, dom[root].marked))
                    stale == (keyed \cup cands) \ Matched(log', a)
                IN /\ \A n \in stale :
                         /\ Cardinality(Teardowns(log', a, n)) = 1
                         /\ \A t \in Teardowns(log', a, n) :
                               /\ log'[t + 1].op = "recollect"
                               /\ log'[t + 1].n = n
                               /\ log'[t + 1].x = FALSE
                         /\ IF dom[n].owner # 0
                            THEN \E u \in Events(log', {"unmount"}) : log'[u].n = dom[n].owner
                            ELSE /\ dom'[n].parent = 0
                                 /\ \A k \in Range(dom[n].kids) :
                                       \E r \in Events(log', {"recollect"}) : log'[r].n = k
                   /\ \A n \in Matched(log', a) : Teardowns(log', a, n) = {}
      ]_vars

\* ---------------------------------------------------- diffAttributes claim
\* the keys of an attribute list, and the value the list gives a key
KeysOf(l) == {l[i].Key : i \in 1..Len(l)}

ValOf(l, k) ==
    l[CHOOSE i \in 1..Len(l) : l[i].Key = k /\ \A j \in (i + 1)..Len(l) : l[j].Key # k].Val

\* the adapter calls of the log for key k
CallsFor(l, k) == {i \in Events(l, {"setAccessor"}) : l[i].x.key = k}

\* C15: diffAttributes makes exactly one clearing call for every key that
\* only the old list has and one setting call, with the old and the new
\* value, for every key of the new list but children and innerHTML, also
\* when the value has not changed, and no other call.
C15_AttributeCalls ==
    [][passes' = passes + 1 =>
         LET old == dom[root].attrs
             new == vtree.Attr
             cleared == KeysOf(old) \ KeysOf(new)
             set == KeysOf(new) \ {"children", "innerHTML"}
         IN /\ \A i \in 1..Len(log') :
                  /\ log'[i].op = "setAccessor"
                  /\ log'[i].n = root
                  /\ log'[i].x.key \in cleared \cup set
            /\ \A k \in cleared :
                  /\ Cardinality(CallsFor(log', k)) = 1
                  /\ \A i \in CallsFor(log', k) :
                        log'[i].x.new = UndefinedVal /\ log'[i].x.old = ValOf(old, k)
            /\ \A k \in set :
                  /\ Cardinality(CallsFor(log', k)) = 1
                  /\ \A i \in CallsFor(log', k) :
                        /\ log'[i].x.new = ValOf(new, k)
                        /\ log'[i].x.old = IF k \in KeysOf(old) THEN ValOf(old, k) ELSE NilVal
      ]_vars

\* old {class: x, id: y} against new {class: x}: a clear for id and a set
\* of class from x to x
C15_Witness ==
    /\ passes = 1
    /\ vtree.Attr = <<At("class", "x")>>
    /\ Len(log) = 2
    /\ \E i, j \in 1..2 :
          /\ log[i].x = [key |-> "id", old |-> "y", new |-> UndefinedVal, svg |-> FALSE]
          /\ log[j].x = [key |-> "class", old |-> "x", new |-> "x", svg |-> FALSE]

\* the mode that the enclosing tags ask for: that of the innermost svg or
\* foreignObject among them, else the mode the pass began with
ModeBelow(stack, outer) ==
    LET special == {i \in 1..Len(stack) : stack[i] \in {"svg", "foreignObject"}} IN
    IF special = {} THEN outer
    ELSE stack[CHOOSE i \in special : \A j \in special : j <= i] = "svg"

\* C16: the descendants of an svg virtual element are diffed with isSVGMode
\* true, those of a foreignObject inside it with isSVGMode false, and every
\* idiff call returns with the isSVGMode it was entered with.
C16_SVGModePropagation ==
    [][passes' = passes + 1 =>
         /\ \A i \in Events(log', {"idiff"}) :
               log'[i].x.svg = ModeBelow(log'[i].x.stack, FALSE)
         /\ \A i \in Events(log', {"idiffReturn"}) :
               log'[i].x.exit = log'[i].x.entry
      ]_vars

\* the document without the attribute values
Shape(d) == [n \in 1..Len(d) |-> [d[n] EXCEPT !.attrs = <<>>]]

\* C17: a pass over the document that an earlier pass of the same virtual
\* tree produced creates, removes and moves no node and changes no text;
\* its only adapter calls re-apply attributes.
C17_Idempotence ==
    [][(passes >= 1 /\ passes' = passes + 1 /\ vtree' = vtree)
       => /\ panicked' = ""
          /\ Events(log', {"create", "removeChild", "appendChild", "insertBefore",
                           "replaceChild", "nodeValue", "recollect", "unmount",
                           "construct"}) = {}
          /\ Shape(dom') = Shape(dom)
          /\ root' = root
      ]_vars

\* the idiff call that was under way at position f of the log: the latest
\* entry before f
CallAt(l, f) ==
    CHOOSE i \in Events(l, {"idiff"}) :
        i < f /\ \A j \in Events(l, {"idiff"}) : j < f => j <= i

\* C18: when the construction of the component for a higher-order virtual
\* node fails and the slot belongs to a component of another tag, that
\* component has not been unmounted and its document node has not been
\* touched.
C18_NoPartialUnmount ==
    [][passes' = passes + 1 =>
         \A f \in Events(log', {"constructFailed"}) :
            LET elem == log'[CallAt(log', f)].n
                c == IF elem = 0 \/ elem > Len(dom) THEN 0 ELSE dom[elem].owner
            IN (c # 0 /\ cache[c].constructor # log'[f].x)
               => /\ \A u \in Events(log', {"unmount"}) : log'[u].n # c
                  /\ cache'[c] = cache[c]
                  /\ dom'[elem] = dom[elem]
      ]_vars

\* C19: an idiff call for a virtual node that is neither a TextNode nor an
\* ElementNode panics: it returns no node and the pass does nothing after
\* it. This holds for the root of the tree, where the document is left as
\* it was, and for the children of a list reconciliation, none of which is
\* skipped: a list reconciliation that completes has called idiff for each
\* of its virtual children.
C19_UnsupportedAborts ==
    [][passes' = passes + 1 =>
         /\ \A i \in Events(log', {"idiff"}) :
               log'[i].x.type \notin {TextNode, ElementNode}
                  => /\ panicked' = "Un supported node"
                     /\ \A j \in (i + 1)..Len(log') : log'[j].op = "unsupported"
         /\ vtree'.Type \notin {TextNode, ElementNode}
               => /\ panicked' = "Un supported node"
                  /\ dom' = dom
                  /\ root' = root
         /\ \A e \in Events(log', {"listEnd"}) :
               LET a == log'[e].x
                   calls == {m \in Events(log', {"match"}) : log'[m].x.list = a}
               IN /\ Cardinality(calls) = log'[a].x.vkids
                  /\ \A m \in calls : log'[m + 1].op = "idiff"
      ]_vars

\* the pass over ul > (li, comment) has diffed the li and panicked at the
\* comment
C19_Witness ==
    /\ passes = 1
    /\ panicked = "Un supported node"
    /\ vtree.Type = ElementNode
    /\ Len(vtree.Children) = 2
    /\ vtree.Children[2].Type = CommentNode
    /\ Events(log, {"idiffReturn"}) # {}
    /\ log[Len(log)].op = "unsupported"
    /\ log[Len(log) - 1].x.stack = <<"ul">>

\* C20: diffLevel is the number of diff calls under way: never negative, 0
\* between the passes, and after a diff call returns, an inner one
\* included, what it was when the call was entered; only a call entered
\* with no other diff call under way computes isSVGMode and hydrating, and
\* only the return of such a call resets hydrating and flushes the mounts.
C20_DiffLevelIsDepth ==
    [][passes' = passes + 1 =>
         /\ diffLevel' >= 0
         /\ panicked' = "" => diffLevel' = 0
         /\ \A i \in Events(log', {"diff"}) :
               log'[i].x.level = log'[i].x.depth
         /\ \A i \in Events(log', {"diffReturn"}) :
               log'[i].x.exit = log'[i].x.entry
         /\ \A i \in Events(log', {"compute", "reset", "didMount"}) :
               log'[i].op # "didMount" => log'[i].x = 0
         /\ \A i \in Events(log', {"didMount"}) :
               \A j \in Events(log', {"diffReturn"}) : j > i => log'[j].x.depth = 0
         /\ panicked' = "" => mounts' = <<>>
      ]_vars

\* the node that list reconciliation a of the log produced for its i-th
\* virtual child (i from 0): what the idiff call after the match returned,
\* the last return before the next match of a or the end of a
Produced(l, a, i) ==
    LET m == CHOOSE x \in Events(l, {"match"}) : l[x].x.list = a /\ l[x].x.i = i
        after == {x \in Events(l, {"match", "listEnd"}) :
                     /\ x > m
                     /\ IF l[x].op = "match" THEN l[x].x.list = a ELSE l[x].x = a}
        stop == CHOOSE x \in after : \A y \in after : x <= y
        rets == {x \in Events(l, {"idiffReturn"}) : m < x /\ x < stop}
    IN l[CHOOSE x \in rets : \A y \in rets : y <= x].n

\* C21: when the list reconciliation of the diffed element has returned,
\* the children of the element are the nodes produced for its virtual
\* children, one for each and in their order; no other child is attached.
C21_ChildrenAreVirtualList ==
    [][(/\ passes' = passes + 1
        /\ diffLevel = 0
        /\ root # 0
        /\ panicked' = "")
       => \A e \in Events(log', {"listEnd"}) :
             log'[e].n = root' =>
                /\ Len(dom'[root'].kids) = log'[log'[e].x].x.vkids
                /\ \A i \in 1..Len(dom'[root'].kids) :
                      dom'[root'].kids[i] = Produced(log', log'[e].x, i - 1)
      ]_vars

\* C22: when a plain element virtual node is diffed against a document node
\* of another tag, a node of the virtual tag is created, every child of the
\* old node is appended to it in the old order, it replaces the old node in
\* the parent and the old node is recollected; against no node at all, a
\* node is created and the idiff call returns it.
C22_ElementReplacement ==
    [][passes' = passes + 1 =>
         /\ (/\ diffLevel = 0
             /\ root # 0
             /\ dom[root].parent # 0
             /\ vtree'.Type = ElementNode
             /\ ~isHigherOrder(vtree')
             /\ ~isNamedNode(dom, root, vtree'))
            => LET new == Len(dom) + 1
                   kids == dom[root].kids
                   c == CHOOSE i \in Events(log', {"create"}) :
                           \A j \in Events(log', {"create"}) : i <= j
               IN /\ Events(log', {"create"}) # {}
                  /\ log'[c] = Ev("create", new, vtree'.Data)
                  /\ Len(log') >= c + Len(kids) + 2
                  /\ \A j \in 1..Len(kids) :
                        log'[c + j] = Ev("appendChild", kids[j], new)
                  /\ log'[c + Len(kids) + 1] = Ev("replaceChild", new, root)
                  /\ log'[c + Len(kids) + 2] = Ev("recollect", root, TRUE)
                  /\ panicked' = "" => root' = new
         /\ \A i \in Events(log', {"idiff"}) :
               (/\ log'[i].n = 0
                /\ log'[i].x.type = ElementNode
                /\ i < Len(log')
                /\ log'[i + 1].op = "create")
               => \E j \in Events(log', {"idiffReturn"}) :
                     j > i /\ log'[j].n = log'[i + 1].n
      ]_vars

C24_HydratingPerPass ==
    [][(passes' = passes + 1 /\ diffLevel = 0)
       => /\ \A i \in Events(log', {"idiff"}) :
                log'[i].x.hyd = (root # 0 /\ dom[root].marked)
          /\ panicked' = "" => hydrating' = FALSE
      ]_vars

\* the match events of list reconciliation a of the log
MatchesOf(l, a) == {m \in Events(l, {"match"}) : l[m].x.list = a}

\* C25: within one list reconciliation no existing child is matched to two
\* virtual children: a child found by its key is no longer in the keys map
\* and a child found by position is no longer among the candidates; min
\* never decreases, and every candidate below min has been consumed.
C25_MatchedOnce ==
    [][passes' = passes + 1 =>
         \A a \in Events(log', {"list"}) :
            /\ \A m1, m2 \in MatchesOf(log', a) :
                  /\ (m1 # m2 /\ log'[m1].n # 0) => log'[m1].n # log'[m2].n
                  /\ m1 < m2 => log'[m1].x.min <= log'[m2].x.min
            /\ \A m \in MatchesOf(log', a) :
                  /\ log'[m].x.min \in 0..Len(log'[a].x.children)
                  /\ Len(log'[m].x.children) = Len(log'[a].x.children)
                  /\ \A j \in 1..log'[m].x.min : log'[m].x.children[j] = 0
                  /\ log'[m].n # 0 =>
                        /\ log'[m].n \in log'[a].x.keys \cup Range(log'[a].x.children)
                        /\ log'[m].n \notin log'[m].x.keys
                        /\ log'[m].n \notin Range(log'[m].x.children)
      ]_vars

\* a hydration of ul > (text, li, blank text) with (li, text): the li was
\* found behind the cursor, which stayed at 0, then the text was found at
\* the cursor, which moved to 1
C25_Witness ==
    /\ passes = 1
    /\ panicked = ""
    /\ \E a \in Events(log, {"list"}) :
          /\ Len(log[a].x.children) = 2
          /\ \E m1, m2 \in MatchesOf(log, a) :
                /\ m1 < m2
                /\ log[m1].n = log[a].x.children[2]
                /\ log[m1].x.min = 0
                /\ log[m1].x.children = <<log[a].x.children[1], 0>>
                /\ log[m2].n = log[a].x.children[1]
                /\ log[m2].x.min = 1
                /\ log[m2].x.children = <<0, 0>>

\* C26: after a pass that the panic for an unsupported node has aborted,
\* diffLevel is 0, hydrating is false and isSVGMode is what it was before
\* the pass, so that the next diff call is an outermost one that computes
\* both modes for its own arguments.
C26_AbortRestoresPassState ==
    [][(/\ passes' = passes + 1
        /\ diffLevel = 0
        /\ ~hydrating
        /\ panicked' = "Un supported node")
       => /\ diffLevel' = 0
          /\ hydrating' = FALSE
          /\ isSVGMode' = isSVGMode
      ]_vars

\* C27: NewNode does not modify the nodes it is given as children: the
\* Data and the Children of every node that was there before the call are
\* the same after it, also when one text node is passed more than once.
C27_ChildrenUnmodified ==
    [][Len(heap') = Len(heap) + 1 =>
         \A i \in 1..Len(heap) :
            /\ heap'[i].Data = heap[i].Data
            /\ heap'[i].Children = heap[i].Children
      ]_vars

====
